---- MODULE Spec2Model ----
(***************************************************************************)
(* A model of pyq's setup.py: the discovery functions (get_q_home,         *)
(* get_q_arch, get_q_version, get_python_dll), the Config command and the  *)
(* build/install command graph that distutils drives.                      *)
(*                                                                         *)
(* Python strings are TLA+ strings; None is the sentinel string None.      *)
(* A call's outcome is a record [ok, val, exc]: a returned value or the    *)
(* name of the exception that left the function.                           *)
(***************************************************************************)
EXTENDS Integers, Sequences, FiniteSets, TLC

VARIABLES
    sysname,      \* platform.system()
    machine,      \* platform.machine()
    bits,         \* (sys.maxsize + 1).bit_length()
    pyver,        \* sys.version_info[:2], as two digit strings
    executable,   \* sys.executable
    env,          \* os.environ: variable name -> value, None when unset
    dirs,         \* the directories that exist (os.path.isdir)
    qk,           \* the lines of q.k in the runtime homes, NoFile without it
    lddOut,       \* the lines "ldd <executable>" prints
    ldconfigOut,  \* the lines "ldconfig -p" prints
    otoolOut,     \* the lines "otool -L <executable>" prints
    arg,          \* the argument of the discovery function applied alone
    ret,          \* the outcome of the discovery function applied alone
    finalized,    \* the commands whose finalize_options has returned
    have_run,     \* Distribution.have_run: the commands whose run has returned
    opts,         \* command -> its option attributes
    data_files,   \* Distribution.data_files: a list of (target, [source, ...])
    files,        \* the files written: path -> text
    built,        \* the directories the build steps have made
    log,          \* what has happened so far, in order
    exc,          \* the exception that ended the process, "" when there is none
    snapshot,     \* the Config values when Config.finalize_options returned
    stack,        \* the handlers in progress, the innermost last
    ncmds         \* how many commands of the command line have been run

world == <<sysname, machine, bits, pyver, executable, env, dirs, qk,
           lddOut, ldconfigOut, otoolOut>>
dist == <<finalized, have_run, opts, data_files, files, built, log, exc,
          snapshot, stack>>
vars == <<world, arg, ret, dist, ncmds>>

\* ---------------------------------------------------------------- bounds

\* the longest q.k file, in lines
MaxLines == 3
\* the longest output of a native tool, in lines
MaxToolLines == 2
\* the longest command line, in commands
MaxCmds == 2
\* the longest sequence of add_data_file calls
MaxAdds == 3
\* how often the mode of one installed file is fixed
MaxFixes == 2

\* ------------------------------------------------------- Python's values

None == "<None>"
NoFile == <<"<no such file>">>
ToolFails == <<"<non-zero exit>">>
NoRet == [ok |-> FALSE, val |-> "", exc |-> "<not called>"]

Return(v) == [ok |-> TRUE, val |-> v, exc |-> ""]
Raise(e) == [ok |-> FALSE, val |-> "", exc |-> e]

\* the truth value of an optional string: None and '' are false
Truthy(v) == v # None /\ v # ""

Min(a, b) == IF a <= b THEN a ELSE b

\* s[a:b], for 0 <= a <= b
Slice(s, a, b) ==
    IF a < Min(b, Len(s)) THEN SubSeq(s, a + 1, Min(b, Len(s))) ELSE ""

\* s.startswith(p)
StartsWith(s, p) == Len(s) >= Len(p) /\ SubSeq(s, 1, Len(p)) = p

\* p in s
Contains(s, p) ==
    \E i \in 1..(Len(s) - Len(p) + 1) : SubSeq(s, i, i + Len(p) - 1) = p

IsSpace(c) == c \in {" ", "\t", "\n", "\r"}

\* s[i - 1], the i-th character of s
Ch(s, i) == SubSeq(s, i, i)

\* the least member of a non-empty set of numbers
Least(S) == CHOOSE i \in S : \A j \in S : i <= j

\* where the whitespace-separated tokens of s start
TokenStarts(s) ==
    {i \in 1..Len(s) : ~IsSpace(Ch(s, i)) /\ (i = 1 \/ IsSpace(Ch(s, i - 1)))}

\* the token of s that starts at i
TokenAt(s, i) ==
    LET ends == {j \in i..Len(s) : j = Len(s) \/ IsSpace(Ch(s, j + 1))}
    IN  SubSeq(s, i, Least(ends))

\* s.split(): the maximal runs of non-whitespace characters of s, in order
Split(s) ==
    LET starts == TokenStarts(s)
    IN  [k \in 1..Cardinality(starts) |->
            TokenAt(s, CHOOSE i \in starts :
                           Cardinality({j \in starts : j <= i}) = k)]

\* s.split(sep), for a one-character sep
SplitOn(s, sep) ==
    LET cuts == {i \in 1..Len(s) : Ch(s, i) = sep}
        \* the k-th cut, with 0 before the first and Len(s) + 1 after the last
        Cut(k) == IF k = 0 THEN 0
                  ELSE IF k > Cardinality(cuts) THEN Len(s) + 1
                  ELSE CHOOSE i \in cuts : Cardinality({j \in cuts : j <= i}) = k
    IN  [k \in 1..(Cardinality(cuts) + 1) |-> Slice(s, Cut(k - 1), Cut(k) - 1)]

\* s.replace(old, new), for a non-empty old: the leftmost occurrence is
\* replaced, then the rest of s is treated alike
RECURSIVE Replace(_, _, _)
Replace(s, old, new) ==
    LET occ == {i \in 1..(Len(s) - Len(old) + 1) :
                   SubSeq(s, i, i + Len(old) - 1) = old}
    IN  IF occ = {} THEN s
        ELSE LET i == Least(occ)
             IN  Slice(s, 0, i - 1) \o new
                 \o Replace(Slice(s, i + Len(old) - 1, Len(s)), old, new)

WINDOWS == sysname = "Windows"

\* os.path.dirname(p) on POSIX
DirName(p) ==
    LET slashes == {i \in 1..Len(p) : Ch(p, i) = "/"}
        k == IF slashes = {} THEN 0
             ELSE CHOOSE i \in slashes : \A j \in slashes : j <= i
    IN  IF k = 0 THEN "" ELSE IF k = 1 THEN "/" ELSE SubSeq(p, 1, k - 1)

\* os.path.join(a, b): posixpath.join, and ntpath.join on Windows (a rooted b
\* keeps only a's drive)
PathJoin(a, b) ==
    IF WINDOWS
    THEN IF StartsWith(b, "\\") \/ StartsWith(b, "/")
         THEN (IF Slice(a, 1, 2) = ":" THEN Slice(a, 0, 2) ELSE "") \o b
         ELSE IF a = "" \/ Slice(a, Len(a) - 1, Len(a)) \in {"\\", "/", ":"}
              THEN a \o b
              ELSE a \o "\\" \o b
    ELSE IF StartsWith(b, "/") THEN b
         ELSE IF a = "" \/ Slice(a, Len(a) - 1, Len(a)) = "/"
              THEN a \o b
              ELSE a \o "/" \o b

\* os.path.isdir(p)
IsDir(p) == p \in dirs

\* ------------------------------------------------- the discovery functions

\* the loop of get_q_home over the prefix variables vs: the first <prefix>/q
\* that is a directory, None when there is none
RECURSIVE FirstPrefixHome(_, _)
FirstPrefixHome(e, vs) ==
    IF vs = <<>> THEN None
    ELSE LET prefix == e[Head(vs)]
         IN  IF Truthy(prefix) /\ IsDir(PathJoin(prefix, "q"))
             THEN PathJoin(prefix, "q")
             ELSE FirstPrefixHome(e, Tail(vs))

\* get_q_home as it would be with the prefix variables tried before QHOME
get_q_home_prefixes_first(e) ==
    LET q_home == FirstPrefixHome(e, <<"VIRTUAL_ENV", "HOME">>)
    IN  IF q_home # None THEN Return(q_home)
        ELSE IF Truthy(e["QHOME"]) THEN Return(e["QHOME"])
        ELSE IF WINDOWS
             THEN IF e["SystemDrive"] = None THEN Raise("KeyError")
                  ELSE IF IsDir(PathJoin(e["SystemDrive"], "\\q"))
                       THEN Return(PathJoin(e["SystemDrive"], "\\q"))
                       ELSE Raise("RuntimeError")
             ELSE Raise("RuntimeError")

get_q_home(e) ==
    IF Truthy(e["QHOME"]) THEN Return(e["QHOME"])
    ELSE LET q_home == FirstPrefixHome(e, <<"VIRTUAL_ENV", "HOME">>)
         IN  IF q_home # None THEN Return(q_home)
             ELSE IF WINDOWS
                  THEN IF e["SystemDrive"] = None THEN Raise("KeyError")
                       ELSE IF IsDir(PathJoin(e["SystemDrive"], "\\q"))
                            THEN Return(PathJoin(e["SystemDrive"], "\\q"))
                            ELSE Raise("RuntimeError")
                  ELSE Raise("RuntimeError")

\* get_q_os_letter as it would be with Linux's letter for an unknown system
get_q_os_letter_defaulting(sys, mach) ==
    IF sys = "SunOS" THEN Return(IF mach = "i86pc" THEN "v" ELSE "s")
    ELSE IF sys = "Darwin" THEN Return("m")
    ELSE IF sys = "Windows" THEN Return("w")
    ELSE Return("l")

get_q_os_letter(sys, mach) ==
    IF sys = "Linux" THEN Return("l")
    ELSE IF sys = "SunOS" THEN Return(IF mach = "i86pc" THEN "v" ELSE "s")
    ELSE IF sys = "Darwin" THEN Return("m")
    ELSE IF sys = "Windows" THEN Return("w")
    ELSE Raise("RuntimeError")

\* get_q_arch as it would be without the fallback to 32 bits
get_q_arch_no_fallback(q_home) ==
    LET os_letter == get_q_os_letter(sysname, machine)
    IN  IF ~os_letter.ok THEN os_letter
        ELSE Return(os_letter.val \o ToString(bits))

get_q_arch(q_home) ==
    LET os_letter == get_q_os_letter(sysname, machine)
    IN  IF ~os_letter.ok THEN os_letter
        ELSE LET x64dir == PathJoin(q_home, os_letter.val \o "64")
                 width == IF bits = 64 /\ ~IsDir(x64dir) THEN 32 ELSE bits
             IN  Return(os_letter.val \o ToString(width))

\* the runtime homes that hold the file q.k, when there is one
QkHomes == {"/opt/q", "/home/u/q"}

\* open(os.path.join(q_home, 'q.k')) raises when the file does not exist;
\* the first line that starts with k: decides, and '2.2' when there is none
get_q_version(q_home) ==
    IF qk = NoFile \/ q_home \notin QkHomes THEN Raise("IOError")
    ELSE LET hits == {i \in 1..Len(qk) : StartsWith(qk[i], "k:")}
         IN  IF hits = {} THEN Return("2.2")
             ELSE Return(Slice(qk[Least(hits)], 2, 5))

\* the first line of lines that contains frag, 0 when there is none
FirstLineWith(lines, frag) ==
    LET hits == {i \in 1..Len(lines) : Contains(lines[i], frag)}
    IN  IF hits = {} THEN 0 ELSE Least(hits)

\* line.split()[k], for k >= 0 or k = -1
Token(line, k) ==
    LET toks == Split(line)
        j == IF k < 0 THEN Len(toks) + 1 + k ELSE k + 1
    IN  IF j \in 1..Len(toks) THEN Return(toks[j]) ELSE Raise("IndexError")

\* the ldconfig half as it would be with a default name in place of the
\* final raise
PythonDllFromLdconfig_defaulting ==
    LET libpython == "libpython" \o pyver[1] \o "." \o pyver[2]
    IN  IF ldconfigOut = ToolFails THEN Raise("CalledProcessError")
        ELSE LET j == FirstLineWith(ldconfigOut, libpython)
             IN  IF j # 0 THEN Token(ldconfigOut[j], -1)
                 ELSE Return(libpython \o ".so")

\* the ldconfig half of the Linux/SunOS branch of get_python_dll
PythonDllFromLdconfig ==
    LET libpython == "libpython" \o pyver[1] \o "." \o pyver[2]
    IN  IF ldconfigOut = ToolFails THEN Raise("CalledProcessError")
        ELSE LET j == FirstLineWith(ldconfigOut, libpython)
             IN  IF j # 0 THEN Token(ldconfigOut[j], -1)
                 ELSE Raise("RuntimeError")

\* what a call of get_python_dll comes to: its outcome and the tools it ran
Ran(tools, outcome) == [ret |-> outcome, tools |-> tools]

\* the Linux/SunOS branch as it would be if it ran both tools before it scanned
PythonDllFromLdd_eager(exe) ==
    IF lddOut = ToolFails THEN Ran(<<"ldd">>, Raise("CalledProcessError"))
    ELSE LET i == FirstLineWith(lddOut, "libpython")
         IN  IF ldconfigOut = ToolFails
             THEN Ran(<<"ldd", "ldconfig">>, Raise("CalledProcessError"))
             ELSE IF i # 0 THEN Ran(<<"ldd", "ldconfig">>, Token(lddOut[i], 2))
             ELSE Ran(<<"ldd", "ldconfig">>, PythonDllFromLdconfig)

\* the Linux/SunOS branch: ldd first, ldconfig -p after a scan without a hit
PythonDllFromLdd(exe) ==
    IF lddOut = ToolFails THEN Ran(<<"ldd">>, Raise("CalledProcessError"))
    ELSE LET i == FirstLineWith(lddOut, "libpython")
         IN  IF i # 0 THEN Ran(<<"ldd">>, Token(lddOut[i], 2))
             ELSE Ran(<<"ldd", "ldconfig">>, PythonDllFromLdconfig)

\* the Darwin branch: otool -L
PythonDllFromOtool(exe) ==
    IF otoolOut = ToolFails THEN Raise("CalledProcessError")
    ELSE LET i == FirstLineWith(otoolOut, "Python")
         IN  IF i = 0 THEN Raise("RuntimeError")
             ELSE LET python_dll == Token(otoolOut[i], 0)
                  IN  IF ~python_dll.ok THEN python_dll
                      ELSE Return(Replace(python_dll.val, "@executable_path",
                                          DirName(exe)))

get_python_dll_ran(exe) ==
    IF StartsWith(sysname, "Linux") \/ StartsWith(sysname, "SunOS")
    THEN PythonDllFromLdd(exe)
    ELSE IF sysname = "Darwin"
    THEN Ran(<<"otool">>, PythonDllFromOtool(exe))
    ELSE IF sysname = "Windows"
    THEN Ran(<<>>, Return("python" \o pyver[1] \o pyver[2] \o ".dll"))
    ELSE Ran(<<>>, Raise("RuntimeError"))

get_python_dll(exe) == get_python_dll_ran(exe).ret

\* ------------------------------------------------------ the distribution

\* The commands of setup.py's cmdclass, and distutils' build and install that
\* drive them. distutils' other sub-commands (build_py, build_scripts,
\* install_lib, ...) read nothing of config and are left out.
Commands == {"config", "build", "build_ext", "build_qlib", "build_qext",
             "build_exe", "install", "install_qlib", "install_qext",
             "install_exe"}

\* What a statement of a handler reads and writes: the command objects'
\* options, the Distribution's data_files and the file system.
Cur == [opts |-> opts, data_files |-> data_files, files |-> files,
        built |-> built, log |-> log, exc |-> exc]

Event(ev, cmd, what) == [ev |-> ev, cmd |-> cmd, what |-> what]

Emit(s, ev, cmd, what) ==
    IF s.exc # "" THEN s ELSE [s EXCEPT !.log = Append(@, Event(ev, cmd, what))]

\* setattr(cmd, opt, v)
SetOpt(s, cmd, opt, v) ==
    IF s.exc # "" THEN s ELSE [s EXCEPT !.opts[cmd][opt] = v]

\* the statement "raise e"
Throw(s, e) == IF s.exc # "" THEN s ELSE [s EXCEPT !.exc = e]

\* the values Config discovers
ConfValues(o) == [q_home |-> o.q_home, q_arch |-> o.q_arch,
                  q_version |-> o.q_version, python_dll |-> o.python_dll,
                  extra_link_args |-> o.extra_link_args]

\* METADATA
qlib_scripts == <<"python.q", "p.k", "pyq-operators.q">>
ext_modules == <<"pyq._k">>
qext_modules == <<"p">>
executables == IF WINDOWS THEN <<>> ELSE <<"pyq">>

\* a Python int 0/1 or None, as a truth value
Falsy(v) == v \in {None, "", "0"}

\* add_data_file as it would be without the test "source not in f"
add_data_file_appending(df, target, source) ==
    LET hits == {i \in 1..Len(df) : df[i][1] = target}
    IN  IF hits # {}
        THEN LET i == CHOOSE i \in hits : \A j \in hits : i <= j
             IN  [df EXCEPT ![i] = <<target, Append(df[i][2], source)>>]
        ELSE Append(df, <<target, <<source>>>>)

\* add_data_file(data_files, target, source)
add_data_file(df, target, source) ==
    LET hits == {i \in 1..Len(df) : df[i][1] = target}
    IN  IF hits # {}
        THEN LET i == CHOOSE i \in hits : \A j \in hits : i <= j
             IN  IF \E k \in 1..Len(df[i][2]) : df[i][2][k] = source
                 THEN df
                 ELSE [df EXCEPT ![i] = <<target, Append(df[i][2], source)>>]
        ELSE Append(df, <<target, <<source>>>>)

\* open(path, 'w').write(text)
WriteFile(s, cmd, path, text) ==
    IF s.exc # "" THEN s
    ELSE [s EXCEPT !.files = (path :> text) @@ @,
                   !.log = Append(@, Event("write", cmd, path))]

\* Command.copy_tree(src, dst): distutils refuses a src that is no directory
CopyTree(s, cmd, src, dst) ==
    IF s.exc # "" THEN s
    ELSE IF src \notin s.built THEN Throw(s, "DistutilsFileError")
         ELSE Emit(s, "copy_tree", cmd, dst)

\* ------------------------------------------- the handlers' instructions

\* A handler (a finalize_options or a run) is the sequence of its statements.
\* The statements that enter another command are instructions of their own;
\* the others are named by the operator that gives their effect.
Instr(op, cmd, pairs, stmt) ==
    [op |-> op, cmd |-> cmd, pairs |-> pairs, stmt |-> stmt]

\* self.set_undefined_options(src, (src_opt, dst_opt), ...)
SetUndefinedOptionsI(src, pairs) == Instr("set_undefined_options", src, pairs, "")

\* self.get_finalized_command(src), cmd_obj.ensure_finalized()
GetFinalizedCommandI(src) == Instr("get_finalized_command", src, <<>>, "")

\* self.run_command(c)
RunCommandI(c) == Instr("run_command", c, <<>>, "")

\* if not self.skip_build: self.run_command(c)
RunCommandUnlessSkipBuildI(c) == Instr("run_command_unless_skip_build", c, <<>>, "")

\* cmd_obj.run(), as run_command enters it
RunI == Instr("run", "", <<>>, "")

\* any other statement
Stmt(name) == Instr("stmt", "", <<>>, name)

\* ------------------------------------------------------------- Config

\* Discover as it would be with the call's exception caught and dropped
Discover_swallowing(s, opt, fn, r) ==
    IF s.exc # "" \/ s.opts["config"][opt] # None THEN s
    ELSE IF r.ok
         THEN [s EXCEPT !.log = Append(@, Event("call", "config", fn)),
                        !.opts["config"][opt] = r.val]
         ELSE [s EXCEPT !.log = Append(@, Event("call", "config", fn))]

\* one "if self.<opt> is None: self.<opt> = <fn>(...)" of finalize_options;
\* r is the outcome of the call
Discover(s, opt, fn, r) ==
    IF s.exc # "" \/ s.opts["config"][opt] # None THEN s
    ELSE IF r.ok
         THEN [s EXCEPT !.log = Append(@, Event("call", "config", fn)),
                        !.opts["config"][opt] = r.val]
         ELSE [s EXCEPT !.log = Append(@, Event("call", "config", fn)),
                        !.exc = r.exc]

Discover_q_home(s) == Discover(s, "q_home", "get_q_home", get_q_home(env))

\* the q_arch step as it would be if it asked get_q_home for the home again
Discover_q_arch_of_env(s) ==
    Discover(s, "q_arch", "get_q_arch", get_q_arch(get_q_home(env).val))

Discover_q_arch(s) ==
    Discover(s, "q_arch", "get_q_arch", get_q_arch(s.opts["config"].q_home))

Discover_q_version(s) ==
    Discover(s, "q_version", "get_q_version",
             get_q_version(s.opts["config"].q_home))

Discover_python_dll(s) ==
    Discover(s, "python_dll", "get_python_dll", get_python_dll(executable))

\* the tail of Config.finalize_options: dest and extra_link_args
Config_set_defaults(s) ==
    [s EXCEPT
        !.opts["config"].dest = IF @ = None THEN "setup.cfg" ELSE @,
        !.opts["config"].extra_link_args =
            IF WINDOWS
            THEN <<"src\\pyq\\kx\\" \o s.opts["config"].q_arch \o "\\q.lib">>
            ELSE @]

Config_finalize_options ==
    <<Stmt("Discover_q_home"), Stmt("Discover_q_arch"),
      Stmt("Discover_q_version"), Stmt("Discover_python_dll"),
      Stmt("Config_set_defaults")>>

\* SETUP_CFG.format(**vars(self))
SETUP_CFG(o) ==
    "[config]\n" \o "q_home = " \o o.q_home \o "\n"
    \o "q_version = " \o o.q_version \o "\n"
    \o "q_arch = " \o o.q_arch \o "\n"
    \o "python_dll = " \o o.python_dll \o "\n"

\* the body of Config.run as it would be without the test of self.write
Config_write_always(s) ==
    WriteFile(s, "config", s.opts["config"].dest, SETUP_CFG(s.opts["config"]))

\* the body of Config.run
Config_write(s) ==
    IF Falsy(s.opts["config"].write) THEN s
    ELSE WriteFile(s, "config", s.opts["config"].dest,
                   SETUP_CFG(s.opts["config"]))

Config_run == <<Stmt("Config_write")>>

\* ---------------------------------------------- distutils' build, install

\* distutils.util.get_platform()
get_platform == sysname \o "-" \o machine

Build_set_plat_name(s) ==
    IF s.opts["build"].plat_name = None
    THEN SetOpt(s, "build", "plat_name", get_platform) ELSE s

Build_finalize_options == <<Stmt("Build_set_plat_name")>>

\* install.finalize_options of distutils chooses the scripts directory
Install_set_install_scripts(s) ==
    IF s.opts["install"].install_scripts = None
    THEN SetOpt(s, "install", "install_scripts", "/usr/local/bin") ELSE s

Install_finalize_options ==
    <<Stmt("Install_set_install_scripts"),
      SetUndefinedOptionsI("build", << <<"build_base", "build_base">> >>)>>

\* ---------------------------------- setup.py's steps: finalize_options

\* BuildQExt.finalize_options as it would be if it asked get_q_version for
\* the version in place of reading the q_version it took from config
BuildQExt_set_defaults_rediscovering(s) ==
    LET o == s.opts["build_qext"]
        r == get_q_version(o.q_home)
        split_version == SplitOn(r.val, ".")
    IN  IF ~r.ok THEN Throw(Emit(s, "call", "build_qext", "get_q_version"), r.exc)
        ELSE IF o.define = None /\ Len(split_version) < 2
        THEN Throw(Emit(s, "call", "build_qext", "get_q_version"), "IndexError")
        ELSE [s EXCEPT
                !.log = Append(@, Event("call", "build_qext", "get_q_version")),
                !.opts["build_qext"].build_lib =
                    IF @ = None
                    THEN PathJoin(o.build_base, "qext." \o o.plat_name) ELSE @,
                !.opts["build_qext"].build_temp =
                    IF @ = None
                    THEN PathJoin(o.build_base, "temp." \o o.plat_name) ELSE @,
                !.opts["build_qext"].define =
                    IF @ = None
                    THEN << <<"KXVER", split_version[1]>>,
                            <<"KXVER2", split_version[2]>> >>
                    ELSE @]

\* the tail of BuildQExt.finalize_options: build_lib, build_temp, define
BuildQExt_set_defaults(s) ==
    LET o == s.opts["build_qext"]
        split_version == SplitOn(o.q_version, ".")
    IN  IF o.define = None /\ Len(split_version) < 2
        THEN Throw(s, "IndexError")
        ELSE [s EXCEPT
                !.opts["build_qext"].build_lib =
                    IF @ = None
                    THEN PathJoin(o.build_base, "qext." \o o.plat_name) ELSE @,
                !.opts["build_qext"].build_temp =
                    IF @ = None
                    THEN PathJoin(o.build_base, "temp." \o o.plat_name) ELSE @,
                !.opts["build_qext"].define =
                    IF @ = None
                    THEN << <<"KXVER", split_version[1]>>,
                            <<"KXVER2", split_version[2]>> >>
                    ELSE @]

BuildQExt_finalize_options ==
    <<SetUndefinedOptionsI("config",
          << <<"q_home", "q_home">>, <<"q_arch", "q_arch">>,
             <<"q_version", "q_version">> >>),
      SetUndefinedOptionsI("build",
          << <<"build_base", "build_base">>, <<"plat_name", "plat_name">> >>),
      Stmt("BuildQExt_set_defaults")>>

\* the tail of BuildExe.finalize_options: build_exe, define
BuildExe_set_defaults(s) ==
    LET o == s.opts["build_exe"]
    IN  IF o.define = None /\ o.q_version = "" THEN Throw(s, "IndexError")
        ELSE [s EXCEPT
                !.opts["build_exe"].build_exe =
                    IF @ = None
                    THEN PathJoin(o.build_base,
                                  "exe." \o o.plat_name \o "-"
                                  \o pyver[1] \o "." \o pyver[2])
                    ELSE @,
                !.opts["build_exe"].define =
                    IF @ = None
                    THEN << <<"KXVER", Slice(o.q_version, 0, 1)>>,
                            <<"QARCH", o.q_arch>> >>
                    ELSE @]

\* BuildExe.finalize_options as it would be if it also took an option from
\* install_exe, which takes one from build_exe
BuildExe_finalize_options_from_install_exe ==
    <<SetUndefinedOptionsI("config",
          << <<"q_home", "q_home">>, <<"q_arch", "q_arch">>,
             <<"q_version", "q_version">> >>),
      SetUndefinedOptionsI("build",
          << <<"build_base", "build_base">>, <<"plat_name", "plat_name">> >>),
      SetUndefinedOptionsI("install_exe", << <<"build_dir", "build_exe">> >>),
      Stmt("BuildExe_set_defaults")>>

BuildExe_finalize_options ==
    <<SetUndefinedOptionsI("config",
          << <<"q_home", "q_home">>, <<"q_arch", "q_arch">>,
             <<"q_version", "q_version">> >>),
      SetUndefinedOptionsI("build",
          << <<"build_base", "build_base">>, <<"plat_name", "plat_name">> >>),
      Stmt("BuildExe_set_defaults")>>

InstallExe_finalize_options ==
    <<SetUndefinedOptionsI("build_exe", << <<"build_exe", "build_dir">> >>),
      SetUndefinedOptionsI("install",
          << <<"install_scripts", "install_dir">>,
             <<"skip_build", "skip_build">> >>)>>

BuildQLib_set_build_lib(s) ==
    SetOpt(s, "build_qlib", "build_lib",
           PathJoin(s.opts["build_qlib"].build_base, "qlib"))

\* cmd is the finalized install_exe
BuildQLib_set_pyq_executable(s) ==
    SetOpt(s, "build_qlib", "pyq_executable",
           Replace(PathJoin(s.opts["install_exe"].install_dir, "pyq"),
                   "\\", "\\\\"))

BuildQLib_finalize_options ==
    <<SetUndefinedOptionsI("config",
          << <<"q_home", "q_home">>, <<"python_dll", "python_dll">> >>),
      SetUndefinedOptionsI("build", << <<"build_base", "build_base">> >>),
      Stmt("BuildQLib_set_build_lib"),
      GetFinalizedCommandI("install_exe"),
      Stmt("BuildQLib_set_pyq_executable")>>

\* the tail of BuildPyExt.finalize_options: conf is the finalized config
BuildPyExt_set_extra_link_args(s) ==
    IF s.opts["config"].extra_link_args # <<>>
    THEN SetOpt(s, "build_ext", "ext_extra_link_args",
                s.opts["config"].extra_link_args)
    ELSE s

\* build_ext.finalize_options of distutils reads build's options, then
\* setup.py's additions
BuildPyExt_finalize_options ==
    <<SetUndefinedOptionsI("build", <<>>),
      SetUndefinedOptionsI("build_qext", << <<"define", "define">> >>),
      SetUndefinedOptionsI("config", << <<"q_arch", "q_arch">> >>),
      GetFinalizedCommandI("config"),
      Stmt("BuildPyExt_set_extra_link_args")>>

InstallQLib_finalize_options ==
    <<SetUndefinedOptionsI("config", << <<"q_home", "install_dir">> >>),
      SetUndefinedOptionsI("build_qlib", << <<"build_lib", "build_dir">> >>),
      SetUndefinedOptionsI("install", << <<"skip_build", "skip_build">> >>)>>

InstallQExt_set_install_dir(s) ==
    SetOpt(s, "install_qext", "install_dir",
           PathJoin(s.opts["install_qext"].q_home,
                    s.opts["install_qext"].q_arch))

InstallQExt_finalize_options ==
    <<SetUndefinedOptionsI("config",
          << <<"q_home", "q_home">>, <<"q_arch", "q_arch">> >>),
      SetUndefinedOptionsI("build_qext", << <<"build_lib", "build_dir">> >>),
      SetUndefinedOptionsI("install", << <<"skip_build", "skip_build">> >>),
      Stmt("InstallQExt_set_install_dir")>>

\* ------------------------------------------- setup.py's build steps: run

\* PYQ_CONFIG.format(**vars(self))
PYQ_CONFIG(o) ==
    "\\d .p\n" \o "python_dll:\"" \o o.python_dll \o "\\000\"\n"
    \o "pyq_executable:\"" \o o.pyq_executable \o "\"\n"

pyq_config_file(s) == PathJoin(s.opts["build_qlib"].build_lib, "pyq-config.q")

BuildQLib_write_pyq_config(s) ==
    [s EXCEPT !.files = (pyq_config_file(s) :> PYQ_CONFIG(s.opts["build_qlib"]))
                        @@ @,
              !.log = Append(@, Event("write", "build_qlib", pyq_config_file(s))),
              !.data_files = add_data_file(@, "q", pyq_config_file(s))]

\* one turn of the loop of BuildQLib.run
BuildQLib_build_script(s, script) ==
    Emit(BuildQLib_write_pyq_config(s), "copy_file", "build_qlib",
         PathJoin(s.opts["build_qlib"].build_lib, script))

\* the loop of BuildQLib.run over the scripts from i on
RECURSIVE BuildQLibScripts(_, _)
BuildQLibScripts(s, i) ==
    IF i > Len(qlib_scripts) THEN s
    ELSE BuildQLibScripts(BuildQLib_build_script(s, qlib_scripts[i]), i + 1)

\* the body of BuildQLib.run: mkpath, then the loop
BuildQLib_build_scripts(s) ==
    BuildQLibScripts(
        [s EXCEPT !.built = @ \cup {s.opts["build_qlib"].build_lib}], 1)

BuildQLib_run == <<Stmt("BuildQLib_build_scripts")>>

\* the macro as it would be if BuildQExt.run added none
PY3K_never == <<>>

\* the macro BuildQExt.run adds under Python 3
PY3K == IF pyver[1] = "3" THEN << <<"PY3K", pyver[1] \o pyver[2]>> >> ELSE <<>>

\* what BuildQExt.run passes to the linker: a copy of conf.extra_link_args,
\* extended on Windows
QExtLinkArgs(conf_extra_link_args, ext) ==
    conf_extra_link_args
    \o (IF WINDOWS THEN <<"/DEF:src\\pyq\\" \o ext \o ".def">> ELSE <<>>)

\* the turn of the loop as it would be with conf.extra_link_args extended in
\* place, not copied
BuildQExt_build_extension_in_place(s, ext) ==
    [s EXCEPT
        !.log = @ \o <<Event("compile", "build_qext",
                             s.opts["build_qext"].define \o PY3K),
                       Event("link", "build_qext",
                             QExtLinkArgs(s.opts["config"].extra_link_args, ext))>>,
        !.opts["config"].extra_link_args = QExtLinkArgs(@, ext),
        !.built = @ \cup {s.opts["build_qext"].build_lib},
        !.data_files =
            add_data_file(@, PathJoin("q", s.opts["build_qext"].q_arch),
                          PathJoin(s.opts["build_qext"].build_lib,
                                   ext \o (IF WINDOWS THEN ".dll" ELSE ".so")))]

\* one turn of the loop of BuildQExt.run: compile, link, add_data_file
BuildQExt_build_extension(s, ext) ==
    [s EXCEPT
        !.log = @ \o <<Event("compile", "build_qext",
                             s.opts["build_qext"].define \o PY3K),
                       Event("link", "build_qext",
                             QExtLinkArgs(s.opts["config"].extra_link_args, ext))>>,
        !.built = @ \cup {s.opts["build_qext"].build_lib},
        !.data_files =
            add_data_file(@, PathJoin("q", s.opts["build_qext"].q_arch),
                          PathJoin(s.opts["build_qext"].build_lib,
                                   ext \o (IF WINDOWS THEN ".dll" ELSE ".so")))]

\* the loop of BuildQExt.run over the extensions from i on
RECURSIVE BuildQExtModules(_, _)
BuildQExtModules(s, i) ==
    IF i > Len(qext_modules) THEN s
    ELSE BuildQExtModules(BuildQExt_build_extension(s, qext_modules[i]), i + 1)

BuildQExt_build_extensions(s) == BuildQExtModules(s, 1)

BuildQExt_run ==
    <<GetFinalizedCommandI("config"), Stmt("BuildQExt_build_extensions")>>

\* build_ext.run of distutils: the extensions are compiled with self.define
BuildPyExt_build_extensions(s) ==
    [s EXCEPT
        !.log = @ \o <<Event("compile", "build_ext", s.opts["build_ext"].define),
                       Event("link", "build_ext",
                             s.opts["build_ext"].ext_extra_link_args)>>]

BuildPyExt_run == <<Stmt("BuildPyExt_build_extensions")>>

\* one turn of the loop of BuildExe.run: compile, link_executable
BuildExe_build_executable(s, exe) ==
    [s EXCEPT
        !.log = @ \o <<Event("compile", "build_exe", s.opts["build_exe"].define),
                       Event("link", "build_exe", exe)>>,
        !.built = @ \cup {s.opts["build_exe"].build_exe}]

\* the loop of BuildExe.run over the executables from i on
RECURSIVE BuildExeExecutables(_, _)
BuildExeExecutables(s, i) ==
    IF i > Len(executables) THEN s
    ELSE BuildExeExecutables(BuildExe_build_executable(s, executables[i]), i + 1)

BuildExe_build_executables(s) == BuildExeExecutables(s, 1)

BuildExe_run == <<Stmt("BuildExe_build_executables")>>

\* build.sub_commands as it would be with build_qext put first
BuildSubCommands_qext_first ==
    <<"build_qext", "build_ext", "build_qlib", "build_exe">>

\* build.sub_commands: distutils' build_ext, then the three setup.py appends
BuildSubCommands == <<"build_ext", "build_qlib", "build_qext", "build_exe">>

\* build.run of distutils: the loop over its sub-commands
Build_run == [i \in 1..Len(BuildSubCommands) |-> RunCommandI(BuildSubCommands[i])]

\* ----------------------------------------- setup.py's install steps: run

InstallQLib_copy_tree(s) ==
    CopyTree(s, "install_qlib", s.opts["install_qlib"].build_dir,
             s.opts["install_qlib"].install_dir)

InstallQLib_run ==
    <<RunCommandUnlessSkipBuildI("build_qlib"), Stmt("InstallQLib_copy_tree")>>

\* a | b and a & b of Python, for non-negative integers
RECURSIVE BitOr(_, _)
BitOr(a, b) ==
    IF a = 0 THEN b
    ELSE IF b = 0 THEN a
    ELSE 2 * BitOr(a \div 2, b \div 2) + (IF a % 2 = 1 \/ b % 2 = 1 THEN 1 ELSE 0)

RECURSIVE BitAnd(_, _)
BitAnd(a, b) ==
    IF a = 0 \/ b = 0 THEN 0
    ELSE 2 * BitAnd(a \div 2, b \div 2) + (IF a % 2 = 1 /\ b % 2 = 1 THEN 1 ELSE 0)

\* 0o555 and 0o7777
ExecBits == 365
ModeMask == 4095

\* the mode fix as it would be if it assigned the bits instead of adding them
ModeFix_assigning(st_mode) == BitAnd(ExecBits, ModeMask)

\* ((os.stat(file)[ST_MODE]) | 0o555) & 0o7777
ModeFix(st_mode) == BitAnd(BitOr(st_mode, ExecBits), ModeMask)

InstallQExt_copy_tree(s) ==
    CopyTree(s, "install_qext", s.opts["install_qext"].build_dir,
             s.opts["install_qext"].install_dir)

InstallQExt_run ==
    <<RunCommandUnlessSkipBuildI("build_qext"), Stmt("InstallQExt_copy_tree")>>

\* InstallExe.run after the build: nothing to do without executables;
\* the copy, then the mode of each copied file is fixed on POSIX
InstallExe_copy(s) ==
    IF executables = <<>> THEN s
    ELSE IF WINDOWS
    THEN CopyTree(s, "install_exe", s.opts["install_exe"].build_dir,
                  s.opts["install_exe"].install_dir)
    ELSE Emit(CopyTree(s, "install_exe", s.opts["install_exe"].build_dir,
                       s.opts["install_exe"].install_dir),
              "chmod", "install_exe",
              PathJoin(s.opts["install_exe"].install_dir, executables[1]))

InstallExe_run ==
    <<RunCommandUnlessSkipBuildI("build_exe"), Stmt("InstallExe_copy")>>

\* install.sub_commands: the three setup.py appends
InstallSubCommands == <<"install_qlib", "install_qext", "install_exe">>

\* install.run of distutils: build first unless --skip-build, then the loop
\* over its sub-commands
Install_run ==
    [i \in 1..(Len(InstallSubCommands) + 1) |->
        IF i = 1 THEN RunCommandUnlessSkipBuildI("build")
        ELSE RunCommandI(InstallSubCommands[i - 1])]

\* ------------------------------------------- distutils' Command protocol

\* cmd_obj.finalize_options(), by the class of the command
FinalizeOptions(c) ==
    CASE c = "config" -> Config_finalize_options
      [] c = "build" -> Build_finalize_options
      [] c = "build_ext" -> BuildPyExt_finalize_options
      [] c = "build_qlib" -> BuildQLib_finalize_options
      [] c = "build_qext" -> BuildQExt_finalize_options
      [] c = "build_exe" -> BuildExe_finalize_options
      [] c = "install" -> Install_finalize_options
      [] c = "install_qlib" -> InstallQLib_finalize_options
      [] c = "install_qext" -> InstallQExt_finalize_options
      [] c = "install_exe" -> InstallExe_finalize_options

\* cmd_obj.run(), by the class of the command
Run(c) ==
    CASE c = "config" -> Config_run
      [] c = "build" -> Build_run
      [] c = "build_ext" -> BuildPyExt_run
      [] c = "build_qlib" -> BuildQLib_run
      [] c = "build_qext" -> BuildQExt_run
      [] c = "build_exe" -> BuildExe_run
      [] c = "install" -> Install_run
      [] c = "install_qlib" -> InstallQLib_run
      [] c = "install_qext" -> InstallQExt_run
      [] c = "install_exe" -> InstallExe_run

\* Distribution.run_command(c) of distutils, once c is known not to have run:
\* cmd_obj.ensure_finalized(), then cmd_obj.run()
RunCommand(c) == <<GetFinalizedCommandI(c), RunI>> \o Run(c)

\* the effect of a statement, by the name of its operator
Effect(stmt, s) ==
    CASE stmt = "Discover_q_home" -> Discover_q_home(s)
      [] stmt = "Discover_q_arch" -> Discover_q_arch(s)
      [] stmt = "Discover_q_version" -> Discover_q_version(s)
      [] stmt = "Discover_python_dll" -> Discover_python_dll(s)
      [] stmt = "Config_set_defaults" -> Config_set_defaults(s)
      [] stmt = "Config_write" -> Config_write(s)
      [] stmt = "Build_set_plat_name" -> Build_set_plat_name(s)
      [] stmt = "Install_set_install_scripts" -> Install_set_install_scripts(s)
      [] stmt = "BuildQExt_set_defaults" -> BuildQExt_set_defaults(s)
      [] stmt = "BuildExe_set_defaults" -> BuildExe_set_defaults(s)
      [] stmt = "BuildQLib_set_build_lib" -> BuildQLib_set_build_lib(s)
      [] stmt = "BuildQLib_set_pyq_executable" -> BuildQLib_set_pyq_executable(s)
      [] stmt = "BuildPyExt_set_extra_link_args" ->
             BuildPyExt_set_extra_link_args(s)
      [] stmt = "InstallQExt_set_install_dir" -> InstallQExt_set_install_dir(s)
      [] stmt = "BuildQLib_build_scripts" -> BuildQLib_build_scripts(s)
      [] stmt = "BuildQExt_build_extensions" -> BuildQExt_build_extensions(s)
      [] stmt = "BuildPyExt_build_extensions" -> BuildPyExt_build_extensions(s)
      [] stmt = "BuildExe_build_executables" -> BuildExe_build_executables(s)
      [] stmt = "InstallQLib_copy_tree" -> InstallQLib_copy_tree(s)
      [] stmt = "InstallQExt_copy_tree" -> InstallQExt_copy_tree(s)
      [] stmt = "InstallExe_copy" -> InstallExe_copy(s)

\* a call in progress: the handler op ("finalize_options" or "run_command")
\* of command cmd, about to execute its pc-th instruction
Frame(cmd, op) == [cmd |-> cmd, op |-> op, pc |-> 1]

Top == stack[Len(stack)]

Program(f) ==
    IF f.op = "finalize_options" THEN FinalizeOptions(f.cmd) ELSE RunCommand(f.cmd)

\* the handler on top of the stack has an instruction left
Running == stack # <<>> /\ Top.pc <= Len(Program(Top))

\* the instruction the process is about to execute
Fetch == Program(Top)[Top.pc]

\* the stack once the top handler has moved past its instruction
Advance == [stack EXCEPT ![Len(stack)].pc = @ + 1]

\* the loop of set_undefined_options over its (src_opt, dst_opt) pairs
RECURSIVE CopyUndefined(_, _, _, _)
CopyUndefined(o, dst, src, pairs) ==
    IF pairs = <<>> THEN o
    ELSE CopyUndefined(
             IF o[dst][Head(pairs)[2]] = None
             THEN [o EXCEPT ![dst][Head(pairs)[2]] = o[src][Head(pairs)[1]]]
             ELSE o,
             dst, src, Tail(pairs))

\* ------------------------------------------------------ the initial state

EnvVars == {"QHOME", "VIRTUAL_ENV", "HOME", "SystemDrive"}

\* the command objects after initialize_options and the command line:
\* skip is install's --skip-build, write is config's --write
InitOpts(skip, write) ==
    [c \in Commands |->
        CASE c = "config" ->
               [q_home |-> None, q_arch |-> None, q_version |-> None,
                python_dll |-> None, dest |-> None, write |-> write,
                extra_link_args |-> <<>>]
          [] c = "build" -> [build_base |-> "build", plat_name |-> None]
          [] c = "build_ext" ->
               [define |-> None, q_arch |-> None, ext_extra_link_args |-> <<>>]
          [] c = "build_qlib" ->
               [q_home |-> None, python_dll |-> None, build_base |-> None,
                build_lib |-> None, pyq_executable |-> None]
          [] c = "build_qext" ->
               [q_home |-> None, q_arch |-> None, q_version |-> None,
                build_base |-> None, build_temp |-> None, build_lib |-> None,
                define |-> None, plat_name |-> None]
          [] c = "build_exe" ->
               [q_home |-> None, q_arch |-> None, q_version |-> None,
                build_base |-> None, build_exe |-> None, define |-> None,
                plat_name |-> None]
          [] c = "install" ->
               [skip_build |-> skip, install_scripts |-> None,
                build_base |-> None]
          [] c = "install_qlib" ->
               [install_dir |-> None, build_dir |-> None, skip_build |-> None]
          [] c = "install_qext" ->
               [q_home |-> None, q_arch |-> None, build_dir |-> None,
                skip_build |-> None, install_dir |-> None]
          [] c = "install_exe" ->
               [build_dir |-> None, install_dir |-> None, skip_build |-> None]]

\* METADATA['data_files']
InitDataFiles ==
    << <<"q", <<"src/pyq/p.k", "src/pyq/pyq-operators.q", "src/pyq/python.q">>>> >>

NoSnapshot == [q_home |-> None, q_arch |-> None, q_version |-> None,
               python_dll |-> None, extra_link_args |-> <<>>]

\* a fresh process, before any command has run
DistInit(skip, write) ==
    /\ finalized = {}
    /\ have_run = {}
    /\ opts = InitOpts(skip, write)
    /\ data_files = InitDataFiles
    /\ files = <<>>
    /\ built = {}
    /\ log = <<>>
    /\ exc = ""
    /\ snapshot = NoSnapshot
    /\ stack = <<>>
    /\ ncmds = 0

LddLibpython ==
    "\tlibpython3.6m.so.1.0 => /usr/lib/libpython3.6m.so.1.0 (0x00007f01)"
LddOther == "\tlibc.so.6 => /lib/libc.so.6 (0x00007f02)"
QkVersion == "k:3.6 2018.05.17\n"

HomeEnv == [v \in EnvVars |-> IF v = "HOME" THEN "/home/u" ELSE None]
QHomeEnv == [v \in EnvVars |-> IF v = "QHOME" THEN "/opt/q" ELSE None]
BareEnv == [v \in EnvVars |-> IF v = "SystemDrive" THEN "C:" ELSE None]

\* The machines and environments the command line is run on: a supported and
\* an unsupported platform, Python 3 and Python 2, a q home found through
\* QHOME, through HOME or not at all, q.k present or missing, a Python linked
\* dynamically or not found.
Init ==
    /\ sysname \in {"Linux", "Windows", "FreeBSD"}
    /\ machine = "x86_64"
    /\ bits = 64
    /\ pyver \in {<<"3", "6">>, <<"2", "7">>}
    /\ executable = "/usr/bin/python3"
    /\ env \in {HomeEnv, QHomeEnv, BareEnv}
    /\ dirs = {"/opt/q", "/opt/q/l64", "/home/u/q"}
    /\ qk \in {NoFile, <<QkVersion>>}
    /\ lddOut \in {<<LddOther, LddLibpython>>, <<LddOther>>}
    /\ ldconfigOut = <<>>
    /\ otoolOut = <<>>
    /\ arg = None
    /\ ret = NoRet
    /\ \E skip \in {"0", "1"} : DistInit(skip, None)

\* ------------------------------------------------------------ the actions

\* Distribution.run_commands of distutils takes the next command c of the
\* command line: run_command(c) returns at once when c has run already
CommandLine(c) ==
    /\ stack = <<>>
    /\ exc = ""
    /\ ncmds < MaxCmds
    /\ ncmds' = ncmds + 1
    /\ stack' = IF c \in have_run THEN stack ELSE <<Frame(c, "run_command")>>
    /\ UNCHANGED <<world, arg, ret, finalized, have_run, opts, data_files,
                   files, built, log, exc, snapshot>>

ConfigCmd == CommandLine("config")
BuildCmd == CommandLine("build")
BuildExtCmd == CommandLine("build_ext")
BuildQLibCmd == CommandLine("build_qlib")
BuildQExtCmd == CommandLine("build_qext")
BuildExeCmd == CommandLine("build_exe")
InstallCmd == CommandLine("install")
InstallQLibCmd == CommandLine("install_qlib")
InstallQExtCmd == CommandLine("install_qext")
InstallExeCmd == CommandLine("install_exe")

\* Command.ensure_finalized of distutils, reached through
\* set_undefined_options, get_finalized_command or run_command: a command
\* that is not finalized yet has its finalize_options called
EnsureFinalized ==
    /\ Running
    /\ Fetch.op \in {"set_undefined_options", "get_finalized_command"}
    /\ Fetch.cmd \notin finalized
    /\ stack' = Append(stack, Frame(Fetch.cmd, "finalize_options"))
    /\ UNCHANGED <<world, arg, ret, finalized, have_run, opts, data_files,
                   files, built, log, exc, snapshot, ncmds>>

\* Command.set_undefined_options of distutils, the source being finalized:
\* each destination option that is still None takes the source's value
SetUndefinedOptions ==
    /\ Running
    /\ Fetch.op = "set_undefined_options"
    /\ Fetch.cmd \in finalized
    /\ opts' = CopyUndefined(opts, Top.cmd, Fetch.cmd, Fetch.pairs)
    /\ stack' = Advance
    /\ UNCHANGED <<world, arg, ret, finalized, have_run, data_files, files,
                   built, log, exc, snapshot, ncmds>>

\* Command.get_finalized_command of distutils, the command being finalized
GetFinalizedCommand ==
    /\ Running
    /\ Fetch.op = "get_finalized_command"
    /\ Fetch.cmd \in finalized
    /\ stack' = Advance
    /\ UNCHANGED <<world, arg, ret, finalized, have_run, opts, data_files,
                   files, built, log, exc, snapshot, ncmds>>

\* the guard as it would be with the "not" left out
SkipBuild_inverted ==
    /\ Fetch.op = "run_command_unless_skip_build"
    /\ Falsy(opts[Top.cmd].skip_build)

\* the guard of "if not self.skip_build: self.run_command(c)"
SkipBuild ==
    /\ Fetch.op = "run_command_unless_skip_build"
    /\ ~Falsy(opts[Top.cmd].skip_build)

\* Distribution.run_command(c) of distutils, called from a run: a command
\* that has not run yet is entered
RunCommandCall ==
    /\ Running
    /\ Fetch.op \in {"run_command", "run_command_unless_skip_build"}
    /\ ~SkipBuild
    /\ Fetch.cmd \notin have_run
    /\ stack' = Append(stack, Frame(Fetch.cmd, "run_command"))
    /\ UNCHANGED <<world, arg, ret, finalized, have_run, opts, data_files,
                   files, built, log, exc, snapshot, ncmds>>

\* the caller goes on: run_command(c) has returned, c having run now or
\* earlier, or --skip-build has kept the caller from calling it
RunCommandDone ==
    /\ Running
    /\ Fetch.op \in {"run_command", "run_command_unless_skip_build"}
    /\ SkipBuild \/ Fetch.cmd \in have_run
    /\ stack' = Advance
    /\ UNCHANGED <<world, arg, ret, finalized, have_run, opts, data_files,
                   files, built, log, exc, snapshot, ncmds>>

\* run_command enters cmd_obj.run()
BeginRun ==
    /\ Running
    /\ Fetch.op = "run"
    /\ log' = Append(log, Event("run_begin", Top.cmd, ""))
    /\ stack' = Advance
    /\ UNCHANGED <<world, arg, ret, finalized, have_run, opts, data_files,
                   files, built, exc, snapshot, ncmds>>

\* what a statement leaves: r is the statement's effect; an exception
\* unwinds every handler, none of which catches it, and ends the process
Leave(r) ==
    /\ opts' = r.opts
    /\ data_files' = r.data_files
    /\ files' = r.files
    /\ built' = r.built
    /\ log' = r.log
    /\ exc' = r.exc
    /\ stack' = IF r.exc # "" THEN <<>> ELSE Advance

\* any other statement of a handler
Statement ==
    /\ Running
    /\ Fetch.op = "stmt"
    /\ Leave(Effect(Fetch.stmt, Cur))
    /\ UNCHANGED <<world, arg, ret, finalized, have_run, snapshot, ncmds>>

\* finalize_options returns: ensure_finalized marks the command finalized
FinalizeReturn ==
    /\ stack # <<>>
    /\ Top.pc > Len(Program(Top))
    /\ Top.op = "finalize_options"
    /\ finalized' = finalized \cup {Top.cmd}
    /\ snapshot' = IF Top.cmd = "config" THEN ConfValues(opts["config"])
                   ELSE snapshot
    /\ stack' = SubSeq(stack, 1, Len(stack) - 1)
    /\ UNCHANGED <<world, arg, ret, have_run, opts, data_files, files, built,
                   log, exc, ncmds>>

\* run returns: run_command marks the command as run
RunReturn ==
    /\ stack # <<>>
    /\ Top.pc > Len(Program(Top))
    /\ Top.op = "run_command"
    /\ have_run' = have_run \cup {Top.cmd}
    /\ log' = Append(log, Event("run_end", Top.cmd, ""))
    /\ stack' = SubSeq(stack, 1, Len(stack) - 1)
    /\ UNCHANGED <<world, arg, ret, finalized, opts, data_files, files, built,
                   exc, snapshot, ncmds>>

Next ==
    \/ ConfigCmd
    \/ BuildCmd
    \/ BuildExtCmd
    \/ BuildQLibCmd
    \/ BuildQExtCmd
    \/ BuildExeCmd
    \/ InstallCmd
    \/ InstallQLibCmd
    \/ InstallQExtCmd
    \/ InstallExeCmd
    \/ EnsureFinalized
    \/ SetUndefinedOptions
    \/ GetFinalizedCommand
    \/ RunCommandCall
    \/ RunCommandDone
    \/ BeginRun
    \/ Statement
    \/ FinalizeReturn
    \/ RunReturn

Spec == Init /\ [][Next]_vars

\* --------------------------------- the discovery functions applied alone

\* the sequences over S of at most n members
SeqsUpTo(S, n) == UNION {[1..k -> S] : k \in 0..n}

\* a process that runs no command
Idle == DistInit("0", None)

\* get_q_home(os.environ), for the environments and directories it can meet:
\* each variable unset, empty or set, each candidate directory there or not
HomeDirs == {"/opt/q", "/venv/q", "/home/u/q", "/venv\\q", "/home/u\\q", "C:\\q"}

InitHome ==
    /\ sysname \in {"Linux", "Windows"}
    /\ machine = "x86_64"
    /\ bits = 64
    /\ pyver = <<"3", "6">>
    /\ executable = "/usr/bin/python3"
    /\ env \in [EnvVars -> {None, "", "/opt/q", "/venv", "/home/u", "C:"}]
    /\ env["QHOME"] \in {None, "", "/opt/q"}
    /\ env["VIRTUAL_ENV"] \in {None, "/venv"}
    /\ env["HOME"] \in {None, "/home/u"}
    /\ env["SystemDrive"] \in {None, "C:"}
    /\ dirs \in SUBSET HomeDirs
    /\ qk = NoFile
    /\ lddOut = <<>>
    /\ ldconfigOut = <<>>
    /\ otoolOut = <<>>
    /\ arg = None
    /\ ret = NoRet
    /\ Idle

GetQHome ==
    /\ ret = NoRet
    /\ ret' = get_q_home(env)
    /\ UNCHANGED <<world, arg, dist, ncmds>>

SpecHome == InitHome /\ [][GetQHome]_vars

\* get_q_arch(q_home), for the platforms and runtime homes it can meet
ArchDirs == {"/home/u/q/l64", "/home/u/q/l32", "/home/u/q/v64", "/home/u/q/s64",
             "/home/u/q/m64", "/home/u/q\\w64"}

InitArch ==
    /\ sysname \in {"Linux", "SunOS", "Darwin", "Windows", "FreeBSD"}
    /\ machine \in {"x86_64", "i86pc"}
    /\ bits \in {32, 64}
    /\ pyver = <<"3", "6">>
    /\ executable = "/usr/bin/python3"
    /\ env = HomeEnv
    /\ dirs \in SUBSET ArchDirs
    /\ qk = NoFile
    /\ lddOut = <<>>
    /\ ldconfigOut = <<>>
    /\ otoolOut = <<>>
    /\ arg = "/home/u/q"
    /\ ret = NoRet
    /\ Idle

GetQArch ==
    /\ ret = NoRet
    /\ ret' = get_q_arch(arg)
    /\ UNCHANGED <<world, arg, dist, ncmds>>

SpecArch == InitArch /\ [][GetQArch]_vars

\* get_q_version(q_home), for the q.k files it can meet
QkLines == {QkVersion, "\\d .q\n", "k:2", " k:9.9 2020.01.01\n"}

InitVersion ==
    /\ sysname = "Linux"
    /\ machine = "x86_64"
    /\ bits = 64
    /\ pyver = <<"3", "6">>
    /\ executable = "/usr/bin/python3"
    /\ env = QHomeEnv
    /\ dirs = {"/opt/q"}
    /\ qk \in {NoFile} \cup SeqsUpTo(QkLines, MaxLines)
    /\ lddOut = <<>>
    /\ ldconfigOut = <<>>
    /\ otoolOut = <<>>
    /\ arg = "/opt/q"
    /\ ret = NoRet
    /\ Idle

GetQVersion ==
    /\ ret = NoRet
    /\ ret' = get_q_version(arg)
    /\ UNCHANGED <<world, arg, dist, ncmds>>

SpecVersion == InitVersion /\ [][GetQVersion]_vars

\* get_python_dll(sys.executable), for the tool outputs it can meet
LddStatic == "\tlibpython3.6m.so (static)"
LdconfigLibpython ==
    "\tlibpython3.6m.so.1.0 (libc6,x86-64) => /usr/lib64/libpython3.6m.so.1.0"
LdconfigOther == "\tlibc.so.6 (libc6,x86-64) => /lib64/libc.so.6"
OtoolPython == "\t@executable_path/../Python (compatibility version 3.6.0)"
OtoolOther == "\t/usr/lib/libSystem.B.dylib (compatibility version 1.0.0)"

\* what a tool prints, or its failure
ToolOutputs(lines) == {ToolFails} \cup SeqsUpTo(lines, MaxToolLines)

InitDll ==
    /\ sysname \in {"Linux", "SunOS", "Darwin", "Windows", "FreeBSD"}
    /\ machine = "x86_64"
    /\ bits = 64
    /\ pyver = <<"3", "6">>
    /\ executable = "/usr/bin/python3"
    /\ env = QHomeEnv
    /\ dirs = {"/opt/q"}
    /\ qk = NoFile
    /\ lddOut \in IF sysname \in {"Linux", "SunOS"}
                  THEN ToolOutputs({LddOther, LddLibpython, LddStatic})
                  ELSE {<<>>}
    /\ ldconfigOut \in IF sysname \in {"Linux", "SunOS"}
                       THEN ToolOutputs({LdconfigOther, LdconfigLibpython})
                       ELSE {<<>>}
    /\ otoolOut \in IF sysname = "Darwin"
                    THEN ToolOutputs({OtoolOther, OtoolPython})
                    ELSE {<<>>}
    /\ arg = executable
    /\ ret = NoRet
    /\ Idle

\* the call, with each subprocess.check_output it makes put on the log
GetPythonDll ==
    /\ ret = NoRet
    /\ ret' = get_python_dll(arg)
    /\ log' = log \o [i \in 1..Len(get_python_dll_ran(arg).tools) |->
                        Event("check_output", "get_python_dll",
                              get_python_dll_ran(arg).tools[i])]
    /\ UNCHANGED <<world, arg, finalized, have_run, opts, data_files, files,
                   built, exc, snapshot, stack, ncmds>>

SpecDll == InitDll /\ [][GetPythonDll]_vars

\* ------------------------------------------------- finalization alone

\* cmd_obj.ensure_finalized(), the first thing run_command does with a
\* command, for any command that is not finalized yet
FinalizeCommand ==
    /\ stack = <<>>
    /\ exc = ""
    /\ \E c \in Commands \ finalized :
           stack' = <<Frame(c, "finalize_options")>>
    /\ UNCHANGED <<world, arg, ret, finalized, have_run, opts, data_files,
                   files, built, log, exc, snapshot, ncmds>>

\* the steps of distutils within a finalize_options
FinalizeCall ==
    \/ EnsureFinalized
    \/ SetUndefinedOptions
    \/ GetFinalizedCommand
    \/ FinalizeReturn

NextFinalize == FinalizeCommand \/ FinalizeCall \/ Statement

\* Statement is enabled exactly when a statement is the next instruction
StatementReady == Running /\ Fetch.op = "stmt"

\* Nothing makes the process finalize another command, but it does not stop
\* within one: weak fairness of its steps, each of which changes the stack,
\* the one of Statement written out with its guard.
SpecFinalize ==
    /\ Init /\ [][NextFinalize]_vars
    /\ WF_stack(FinalizeCall)
    /\ (<>[]StatementReady => []<><<Statement>>_stack)

\* ------------------------------------------------------------ properties

\* where the log records event ev of command c first, 0 when it does not
Pos(ev, c) ==
    LET hits == {i \in 1..Len(log) : log[i].ev = ev /\ log[i].cmd = c}
    IN  IF hits = {} THEN 0 ELSE Least(hits)

\* the command whose run began first, "" when none has begun
FirstCommand ==
    LET hits == {i \in 1..Len(log) : log[i].ev = "run_begin"}
    IN  IF hits = {} THEN "" ELSE log[Least(hits)].cmd

\* how many times the log records a call of the discovery function fn
Calls(fn) ==
    Cardinality({i \in 1..Len(log) : log[i].ev = "call" /\ log[i].what = fn})

DiscoveryFns == {"get_q_home", "get_q_arch", "get_q_version", "get_python_dll"}

\* C1: whatever commands are finalized and run in one process, each of
\* get_q_home, get_q_arch, get_q_version and get_python_dll is called at
\* most once.
C1_DiscoveryAtMostOnce == \A fn \in DiscoveryFns : Calls(fn) <= 1

\* build and then install have run in one process, on one discovery
C1_Witness ==
    /\ FirstCommand = "build"
    /\ {"build", "install", "install_qext"} \subseteq have_run
    /\ \A fn \in DiscoveryFns : Calls(fn) = 1

\* c's run began while parent's run was in progress
InSpan(c, parent) ==
    /\ Pos("run_begin", parent) # 0
    /\ Pos("run_begin", c) > Pos("run_begin", parent)
    /\ Pos("run_end", parent) = 0 \/ Pos("run_begin", c) < Pos("run_end", parent)

\* b, begun by parent, began only after a had run to completion
RunsAfter(a, b, parent) ==
    InSpan(b, parent) =>
        /\ Pos("run_end", a) # 0
        /\ Pos("run_end", a) < Pos("run_begin", b)

\* C2: build runs build_ext, then build_qext, then build_exe, and install
\* runs install_qlib, then install_qext, then install_exe; each of them has
\* returned before the next one begins.
C2_StepOrder ==
    /\ RunsAfter("build_ext", "build_qext", "build")
    /\ RunsAfter("build_qext", "build_exe", "build")
    /\ RunsAfter("build_ext", "build_exe", "build")
    /\ RunsAfter("install_qlib", "install_qext", "install")
    /\ RunsAfter("install_qext", "install_exe", "install")
    /\ RunsAfter("install_qlib", "install_exe", "install")

\* install has run build and the six steps, all of them inside its run
C2_Witness ==
    /\ "install" \in have_run
    /\ InSpan("build", "install")
    /\ \A c \in {"build_ext", "build_qext", "build_exe"} : InSpan(c, "build")
    /\ \A c \in {"install_qlib", "install_qext", "install_exe"} :
           InSpan(c, "install")

Installers == {"install_qlib", "install_qext", "install_exe"}

\* the build step that makes what installer c copies
Builder(c) ==
    CASE c = "install_qlib" -> "build_qlib"
      [] c = "install_qext" -> "build_qext"
      [] c = "install_exe" -> "build_exe"

\* C3: an installer whose skip_build is not set copies only after its build
\* step has run, and without --skip-build no installer finds its build
\* directory missing; an installer whose skip_build is set does not run its
\* build step.
C3_InstallerBuildsFirst ==
    /\ \A c \in Installers :
           IF Falsy(opts[c].skip_build)
           THEN \A i \in 1..Len(log) :
                    log[i].ev = "copy_tree" /\ log[i].cmd = c =>
                        /\ Pos("run_end", Builder(c)) # 0
                        /\ Pos("run_end", Builder(c)) < i
           ELSE ~InSpan(Builder(c), c)
    /\ Falsy(opts["install"].skip_build) => exc # "DistutilsFileError"

\* install_exe, the first command of the process, has built, then copied
C3_Witness ==
    /\ FirstCommand = "install_exe"
    /\ Falsy(opts["install_exe"].skip_build)
    /\ InSpan("build_exe", "install_exe")
    /\ \E i \in 1..Len(log) : log[i].ev = "copy_tree" /\ log[i].cmd = "install_exe"

\* the option of Config that discovery function fn fills
OptOf(fn) ==
    CASE fn = "get_q_home" -> "q_home"
      [] fn = "get_q_arch" -> "q_arch"
      [] fn = "get_q_version" -> "q_version"
      [] fn = "get_python_dll" -> "python_dll"

\* the i-th event is a discovery call that has left no value
FailedCall(i) ==
    /\ log[i].ev = "call"
    /\ opts["config"][OptOf(log[i].what)] = None

ArtifactEvents == {"compile", "link", "copy_file", "copy_tree", "chmod", "write"}

\* C4: when a discovery function fails the process ends with its exception,
\* no handler is left in progress, and nothing has been and nothing is
\* compiled, linked, written or copied.
C4_DiscoveryFailureAborts ==
    \A i \in 1..Len(log) :
        FailedCall(i) =>
            /\ exc # ""
            /\ stack = <<>>
            /\ i = Len(log)
            /\ \A j \in 1..Len(log) : log[j].ev \notin ArtifactEvents

\* install with --skip-build has met a failing discovery
C4_Witness ==
    /\ log # <<>>
    /\ FailedCall(Len(log))
    /\ FirstCommand = "install"
    /\ ~Falsy(opts["install"].skip_build)

\* C5: from the moment Config.finalize_options has returned, q_home, q_arch,
\* q_version, python_dll and extra_link_args of Config keep the values they
\* had at that moment.
C5_ConfigImmutable ==
    "config" \in finalized => ConfValues(opts["config"]) = snapshot

\* on Windows, where extra_link_args is not empty, build and install have run
C5_Witness ==
    /\ WINDOWS
    /\ snapshot.extra_link_args # <<>>
    /\ {"build", "build_qext", "build_ext", "install"} \subseteq have_run

\* <prefix>/q of prefix variable v is set and is a directory
PrefixHome(v) == PathJoin(env[v], "q")
ByPrefix(v) == Truthy(env[v]) /\ IsDir(PrefixHome(v))

\* C6: get_q_home returns QHOME when it is set (and not empty); failing that,
\* <VIRTUAL_ENV>/q when it is a directory; failing that, <HOME>/q when it is a
\* directory; failing that, on Windows only, <SystemDrive>\q; off Windows
\* nothing else is tried. With only HOME=/home/u and /home/u/q there, the
\* result is /home/u/q.
C6_StrategyOrder ==
    ret # NoRet =>
        /\ Truthy(env["QHOME"]) => ret = Return(env["QHOME"])
        /\ ~Truthy(env["QHOME"]) /\ ByPrefix("VIRTUAL_ENV") =>
               ret = Return(PrefixHome("VIRTUAL_ENV"))
        /\ ~Truthy(env["QHOME"]) /\ ~ByPrefix("VIRTUAL_ENV") /\ ByPrefix("HOME") =>
               ret = Return(PrefixHome("HOME"))
        /\ ~Truthy(env["QHOME"]) /\ ~ByPrefix("VIRTUAL_ENV") /\ ~ByPrefix("HOME") =>
               IF WINDOWS
               THEN ret.ok => /\ ret.val = PathJoin(env["SystemDrive"], "\\q")
                              /\ IsDir(ret.val)
               ELSE ~ret.ok
        /\ env = HomeEnv /\ ~WINDOWS /\ "/home/u/q" \in dirs =>
               ret = Return("/home/u/q")

\* only HOME is set, /home/u/q is there, and VIRTUAL_ENV's and QHOME's
\* directories are there too
C6_Witness ==
    /\ env = HomeEnv
    /\ ~WINDOWS
    /\ {"/opt/q", "/venv/q", "/home/u/q"} \subseteq dirs
    /\ ret = Return("/home/u/q")

\* C7: off Windows, get_q_home fails when none of QHOME, VIRTUAL_ENV and HOME
\* yields a directory that exists, and what it returns is a directory that
\* exists.
C7_NeverNonexistent ==
    ret # NoRet /\ ~WINDOWS =>
        /\ ~(Truthy(env["QHOME"]) /\ IsDir(env["QHOME"]))
             /\ ~ByPrefix("VIRTUAL_ENV") /\ ~ByPrefix("HOME") => ~ret.ok
        /\ ret.ok => IsDir(ret.val)

\* C8: get_q_arch returns a code that ends in 64 only when <letter>64 is a
\* directory of the runtime home; on a 64-bit host it returns <letter>64 when
\* that directory is there and <letter>32 when it is not (l on Linux).
C8_No64WithoutDir ==
    ret # NoRet /\ ret.ok =>
        LET letter == Slice(ret.val, 0, 1)
        IN  /\ Slice(ret.val, 1, 3) = "64" =>
                   IsDir(PathJoin(arg, letter \o "64"))
            /\ bits = 64 =>
                   ret.val = letter \o (IF IsDir(PathJoin(arg, letter \o "64"))
                                        THEN "64" ELSE "32")
            /\ sysname = "Linux" => letter = "l"

\* a 64-bit Linux host, l64 absent and l32 present: l32
C8_Witness ==
    /\ sysname = "Linux"
    /\ bits = 64
    /\ "/home/u/q/l64" \notin dirs
    /\ "/home/u/q/l32" \in dirs
    /\ ret = Return("l32")

\* the lines of q.k that start with k:
VersionLines == {i \in 1..Len(qk) : StartsWith(qk[i], "k:")}

\* C9: get_q_version returns "2.2" when q.k does not exist or has no line
\* that starts with k:, and the third to fifth characters of the first such
\* line when it has one.
C9_DefaultWhenAbsent ==
    ret # NoRet =>
        IF qk = NoFile \/ VersionLines = {}
        THEN ret = Return("2.2")
        ELSE ret = Return(Slice(qk[Least(VersionLines)], 2, 5))

\* the tool failed or printed no line that contains frag
NoLine(out, frag) ==
    out = ToolFails \/ \A i \in 1..Len(out) : ~Contains(out[i], frag)

\* C10: get_python_dll fails when, on Linux or SunOS, neither ldd nor
\* ldconfig prints a matching line (with RuntimeError when both tools ran),
\* when, on Darwin, otool prints none, and on an unknown OS; what it returns
\* is never empty.
C10_NoMatchIsError ==
    ret # NoRet =>
        /\ sysname \in {"Linux", "SunOS"} /\ NoLine(lddOut, "libpython")
             /\ NoLine(ldconfigOut, "libpython" \o pyver[1] \o "." \o pyver[2]) =>
               /\ ~ret.ok
               /\ lddOut # ToolFails /\ ldconfigOut # ToolFails =>
                      ret = Raise("RuntimeError")
        /\ sysname = "Darwin" /\ NoLine(otoolOut, "Python") => ~ret.ok
        /\ sysname \notin {"Linux", "SunOS", "Darwin", "Windows"} =>
               ret = Raise("RuntimeError")
        /\ ret.ok => ret.val # ""

\* on Linux both tools ran and neither printed a matching line
C10_Witness ==
    /\ sysname = "Linux"
    /\ lddOut = <<LddOther>>
    /\ ldconfigOut = <<LdconfigOther, LdconfigOther>>
    /\ ret = Raise("RuntimeError")

\* --------------------------------------------- the config command alone

\* a setup.cfg left by an earlier run
StaleCfg == "[config]\nq_home = /stale/q\nq_version = 1.0\nq_arch = l32\n"
            \o "python_dll = /stale/libpython.so\n"

\* the options of config after the command line "config [--q-home=...]
\* [--q-arch=...] [--q-version=...] [--python-dll=...] [--dest=...] [--write]"
UserOpts(q_home, q_arch, q_version, python_dll, dest, write) ==
    [InitOpts("0", write) EXCEPT !["config"].q_home = q_home,
                                 !["config"].q_arch = q_arch,
                                 !["config"].q_version = q_version,
                                 !["config"].python_dll = python_dll,
                                 !["config"].dest = dest]

\* "setup.py config ..." on the machines it can meet: each option given or
\* not, a q.k whose version line is long or short, a setup.cfg there or not
InitConfig ==
    /\ sysname \in {"Linux", "Windows"}
    /\ machine = "x86_64"
    /\ bits = 64
    /\ pyver = <<"3", "6">>
    /\ executable = "/usr/bin/python3"
    /\ env \in {QHomeEnv, BareEnv}
    /\ dirs = {"/opt/q", "/opt/q/l64", "/home/u/q", "/home/u/q/l32"}
    /\ qk \in {NoFile, <<QkVersion>>, <<"\\d .q\n", "k:3\n">>}
    /\ lddOut \in {<<LddOther, LddLibpython>>, <<LddOther>>}
    /\ ldconfigOut = <<>>
    /\ otoolOut = <<>>
    /\ arg = None
    /\ ret = NoRet
    /\ finalized = {}
    /\ have_run = {}
    /\ \E q_home \in {None, "/home/u/q"}, q_arch \in {None, "l32"},
          q_version \in {None, "3.5"}, python_dll \in {None, "/lib/libpy.so"},
          dest \in {None, "my.cfg"}, write \in {None, "1"} :
           opts = UserOpts(q_home, q_arch, q_version, python_dll, dest, write)
    /\ data_files = InitDataFiles
    /\ files \in {<<>>, "setup.cfg" :> StaleCfg}
    /\ built = {}
    /\ log = <<>>
    /\ exc = ""
    /\ snapshot = NoSnapshot
    /\ stack = <<>>
    /\ ncmds = 0

NextConfig ==
    \/ ConfigCmd
    \/ EnsureFinalized
    \/ GetFinalizedCommand
    \/ BeginRun
    \/ Statement
    \/ FinalizeReturn
    \/ RunReturn

SpecConfig == InitConfig /\ [][NextConfig]_vars

\* the value of the first line "key = value" of text, None without one
ParseValue(text, key) ==
    LET lines == SplitOn(text, "\n")
        hits == {i \in 1..Len(lines) : StartsWith(lines[i], key \o " = ")}
    IN  IF hits = {} THEN None
        ELSE Slice(lines[Least(hits)], Len(key) + 3, Len(lines[Least(hits)]))

\* config has written its file in this process
Persisted ==
    \E i \in 1..Len(log) : log[i] = Event("write", "config", opts["config"].dest)

PersistedKeys == {"q_home", "q_version", "q_arch", "python_dll"}

\* C11: once config --write has written its file, each of the four lines
\* "key = value" of the file, parsed back, gives the value of q_home,
\* q_version, q_arch and python_dll that Config holds.
C11_PersistRoundTrips ==
    Persisted =>
        \A k \in PersistedKeys :
            ParseValue(files[opts["config"].dest], k) = opts["config"][k]

\* the process is inside the body of Config.run
InConfigRun ==
    /\ stack # <<>>
    /\ Top.cmd = "config"
    /\ Top.op = "run_command"
    /\ Top.pc >= 3

Defines(macros, name, value) ==
    \E k \in 1..Len(macros) : macros[k] = <<name, value>>

\* the macro list macros defines name
Mentions(macros, name) ==
    \E k \in 1..Len(macros) : macros[k][1] = name

\* the compile events of builder c
Compiles(c) == {i \in 1..Len(log) : log[i].ev = "compile" /\ log[i].cmd = c}

\* every compile of the three builders defines KXVER from the finalized
\* q_version: its first dotted component, and its first character for the
\* executable
KxverEverywhere ==
    /\ \A i \in Compiles("build_ext") \cup Compiles("build_qext") :
           Defines(log[i].what, "KXVER", SplitOn(snapshot.q_version, ".")[1])
    /\ \A i \in Compiles("build_exe") :
           Defines(log[i].what, "KXVER", Slice(snapshot.q_version, 0, 1))

\* C13 as stated: every builder compiles with KXVER, and the host-extension
\* builder (build_ext) compiles with PY3K as well.
C13_HostExtensionGetsPy3k ==
    /\ KxverEverywhere
    /\ \A i \in Compiles("build_ext") :
           Defines(log[i].what, "PY3K", pyver[1] \o pyver[2])

\* C13, amended: every builder compiles with KXVER; it is the
\* runtime-extension builder (build_qext) that adds PY3K, the two digits of
\* the Python version, under Python 3 and not under Python 2; the
\* host-extension builder (build_ext) and the executable builder compile
\* without PY3K.
C13_RuntimeExtensionGetsPy3k ==
    /\ KxverEverywhere
    /\ \A i \in Compiles("build_qext") :
           IF pyver[1] = "3"
           THEN Defines(log[i].what, "PY3K", pyver[1] \o pyver[2])
           ELSE ~Mentions(log[i].what, "PY3K")
    /\ \A i \in Compiles("build_ext") \cup Compiles("build_exe") :
           ~Mentions(log[i].what, "PY3K")

\* under Python 3 each of the three builders has compiled
C13_Witness ==
    /\ pyver[1] = "3"
    /\ Compiles("build_ext") # {}
    /\ Compiles("build_qext") # {}
    /\ Compiles("build_exe") # {}

\* ------------------------------------------------ get_q_os_letter alone

\* what platform.system() and platform.machine() can say
SystemNames == {"Linux", "SunOS", "Darwin", "Windows", "FreeBSD", "OpenBSD",
                "NetBSD", "AIX", "Java", "CYGWIN_NT-10.0", "linux", ""}
MachineNames == {"x86_64", "i86pc", "sun4v", "i386", "arm64", ""}

InitLetter ==
    /\ sysname \in SystemNames
    /\ machine \in MachineNames
    /\ bits = 64
    /\ pyver = <<"3", "6">>
    /\ executable = "/usr/bin/python3"
    /\ env = QHomeEnv
    /\ dirs = {"/opt/q"}
    /\ qk = NoFile
    /\ lddOut = <<>>
    /\ ldconfigOut = <<>>
    /\ otoolOut = <<>>
    /\ arg = None
    /\ ret = NoRet
    /\ Idle

GetQOsLetter ==
    /\ ret = NoRet
    /\ ret' = get_q_os_letter(sysname, machine)
    /\ UNCHANGED <<world, arg, dist, ncmds>>

SpecLetter == InitLetter /\ [][GetQOsLetter]_vars

\* C14: get_q_os_letter returns l for Linux, v for SunOS on i86pc and s for
\* SunOS on any other machine, m for Darwin and w for Windows, whatever the
\* machine; for every other system name it fails with RuntimeError.
C14_OsLetter ==
    ret # NoRet =>
        /\ sysname = "Linux" => ret = Return("l")
        /\ sysname = "SunOS" /\ machine = "i86pc" => ret = Return("v")
        /\ sysname = "SunOS" /\ machine # "i86pc" => ret = Return("s")
        /\ sysname = "Darwin" => ret = Return("m")
        /\ sysname = "Windows" => ret = Return("w")
        /\ sysname \notin {"Linux", "SunOS", "Darwin", "Windows"} =>
               ret = Raise("RuntimeError")
        /\ ret.ok => ret.val \in {"l", "s", "v", "m", "w"}

\* an unsupported system has been refused
C14_Witness ==
    /\ sysname = "FreeBSD"
    /\ machine = "x86_64"
    /\ ret = Raise("RuntimeError")

\* ---------------------------------------------------- the mode fix alone

\* the file-type part of st_mode: none, and a regular file's
FileTypes == {0, 32768}

\* arg is the st_mode of the installed file
InitMode ==
    /\ sysname = "Linux"
    /\ machine = "x86_64"
    /\ bits = 64
    /\ pyver = <<"3", "6">>
    /\ executable = "/usr/bin/python3"
    /\ env = QHomeEnv
    /\ dirs = {"/opt/q"}
    /\ qk = NoFile
    /\ lddOut = <<>>
    /\ ldconfigOut = <<>>
    /\ otoolOut = <<>>
    /\ arg \in {ft + m : ft \in FileTypes, m \in 0..ModeMask}
    /\ ret = NoRet
    /\ Idle

\* mode = (st_mode | 0o555) & 0o7777; os.chmod(file, mode), which leaves the
\* file's type as it is
FixMode ==
    /\ ncmds < MaxFixes
    /\ LET mode == ModeFix(arg)
       IN  /\ ret' = Return(mode)
           /\ arg' = (arg - (arg % (ModeMask + 1))) + mode
    /\ ncmds' = ncmds + 1
    /\ UNCHANGED <<world, dist>>

SpecMode == InitMode /\ [][FixMode]_vars

\* bit k of n
Bit(n, k) == (n \div (2 ^ k)) % 2

\* C15: every mode fix computes a 12-bit mode that has every permission bit
\* the file had and the three execute bits; a fix of a file whose mode has
\* been fixed before computes the same mode again and leaves the file's
\* mode as it is.
C15_ModeFixIdempotent ==
    [][/\ ret'.val \in 0..4095
       /\ \A k \in 0..11 : Bit(arg, k) = 1 => Bit(ret'.val, k) = 1
       /\ \A k \in {0, 3, 6} : Bit(ret'.val, k) = 1
       /\ ncmds >= 1 => ret'.val = ret.val /\ arg' = arg]_vars

\* a regular file has been fixed twice
C15_Witness ==
    /\ ncmds = 2
    /\ arg = 32768 + 511
    /\ ret.ok /\ ret.val = 511

\* the tools get_python_dll ran, in their order
ToolsRun == [i \in 1..Len(log) |-> log[i].what]

\* C16: on Linux and SunOS get_python_dll runs ldd first and runs
\* ldconfig -p only after an ldd output without a line that contains
\* libpython; when ldd prints such a line the call comes to the third word of
\* the first such line and ldconfig is not run.
C16_LdconfigOnlyWithoutLddMatch ==
    ret # NoRet /\ sysname \in {"Linux", "SunOS"} =>
        /\ ToolsRun \in {<<"ldd">>, <<"ldd", "ldconfig">>}
        /\ ToolsRun = <<"ldd", "ldconfig">> <=>
               lddOut # ToolFails /\ NoLine(lddOut, "libpython")
        /\ ~NoLine(lddOut, "libpython") =>
               LET hits == {i \in 1..Len(lddOut) :
                               Contains(lddOut[i], "libpython")}
               IN  ret = Token(lddOut[Least(hits)], 2)

\* ldd printed a matching line after another one, ldconfig would have matched
C16_Witness ==
    /\ sysname = "Linux"
    /\ lddOut = <<LddOther, LddLibpython>>
    /\ ldconfigOut = <<LdconfigLibpython>>
    /\ ret.ok
    /\ ToolsRun = <<"ldd">>

\* the commands whose finalized options c's finalize_options asks for
Deps(c) ==
    {FinalizeOptions(c)[i].cmd : i \in
        {j \in 1..Len(FinalizeOptions(c)) :
            FinalizeOptions(c)[j].op \in
                {"set_undefined_options", "get_finalized_command"}}}

\* S and what is within n edges of it
RECURSIVE Descend(_, _)
Descend(S, n) ==
    IF n = 0 THEN S ELSE Descend(S \cup UNION {Deps(d) : d \in S}, n - 1)

\* the commands c depends on, directly or not
Reach(c) == Descend(Deps(c), Cardinality(Commands))

\* the commands whose finalize_options is on the stack, outermost first
Finalizing ==
    LET F == SelectSeq(stack, LAMBDA f : f.op = "finalize_options")
    IN  [i \in 1..Len(F) |-> F[i].cmd]

\* no command is being finalized twice or again, and each finalize_options
\* on the stack was asked for by the one below it
NoReentry ==
    /\ \A c \in Commands : c \notin Reach(c)
    /\ {"config", "build", "install_exe"} \subseteq Deps("build_qlib")
    /\ {"build_exe", "install"} \subseteq Deps("install_exe")
    /\ {"build_qext", "config"} \subseteq Deps("build_ext")
    /\ \A i, j \in 1..Len(Finalizing) : i < j => Finalizing[i] # Finalizing[j]
    /\ \A i \in 1..Len(Finalizing) : Finalizing[i] \notin finalized
    /\ \A i \in 1..(Len(Finalizing) - 1) :
           Finalizing[i + 1] \in Deps(Finalizing[i])

\* C17: the commands' finalize_options depend on each other without a
\* cycle (build_qlib on config, build and install_exe; install_exe on
\* build_exe and install; build_ext on build_qext and config); no command's
\* finalize_options is entered while it is running or after it has returned,
\* and every finalize_options that is entered comes to its end.
C17_FinalizeTerminates ==
    /\ []NoReentry
    /\ (Finalizing # <<>>) ~> (Finalizing = <<>>)

\* build_qlib's finalize_options has led to install_exe's and that to
\* build_exe's
C17_Witness ==
    Finalizing = <<"build_qlib", "install_exe", "build_exe">>

\* fn has just been called
Called(fn) == Calls(fn)' > Calls(fn)

\* the call of fn has left r in option opt: its value, or its exception
Left(r, opt) ==
    IF r.ok THEN opts'["config"][opt] = r.val /\ exc' = ""
    ELSE opts'["config"][opt] = None /\ exc' = r.exc

\* C18: a discovery function is called only while its option is None; an
\* option of config that is not None, given by the user or discovered, is
\* never changed; get_q_arch and get_q_version are called with the q_home
\* config holds at that point, the user's when the user gave one.
C18_DiscoveryOnlyWhenUnset ==
    [][/\ \A fn \in DiscoveryFns :
              Called(fn) => opts["config"][OptOf(fn)] = None
       /\ \A fn \in DiscoveryFns :
              opts["config"][OptOf(fn)] # None =>
                  opts'["config"][OptOf(fn)] = opts["config"][OptOf(fn)]
       /\ Called("get_q_arch") =>
              Left(get_q_arch(opts["config"].q_home), "q_arch")
       /\ Called("get_q_version") =>
              Left(get_q_version(opts["config"].q_home), "q_version")]_vars

\* the user gave q_home and q_version on a machine whose QHOME names another
\* home: only the architecture and the library have been discovered, the
\* architecture in the user's home
C18_Witness ==
    /\ "config" \in finalized
    /\ env = QHomeEnv
    /\ opts["config"].q_home = "/home/u/q"
    /\ opts["config"].q_version = "3.5"
    /\ opts["config"].q_arch = "l32"
    /\ Calls("get_q_home") = 0
    /\ Calls("get_q_version") = 0
    /\ Calls("get_q_arch") = 1
    /\ Calls("get_python_dll") = 1

\* ------------------------------------------------- add_data_file alone

\* the targets and sources build_qlib and build_qext register, and one
\* source the distribution starts with
DataTargets == {"q", "q/l64", "q/l32"}
DataSources == {"build/qlib/pyq-config.q", "build/qext/p.so", "src/pyq/p.k"}

\* arg holds the target and the source of the last call
InitData ==
    /\ sysname = "Linux"
    /\ machine = "x86_64"
    /\ bits = 64
    /\ pyver = <<"3", "6">>
    /\ executable = "/usr/bin/python3"
    /\ env = QHomeEnv
    /\ dirs = {"/opt/q"}
    /\ qk = NoFile
    /\ lddOut = <<>>
    /\ ldconfigOut = <<>>
    /\ otoolOut = <<>>
    /\ arg = <<>>
    /\ ret = NoRet
    /\ Idle

AddDataFile ==
    /\ ncmds < MaxAdds
    /\ \E target \in DataTargets, source \in DataSources :
           /\ arg' = <<target, source>>
           /\ data_files' = add_data_file(data_files, target, source)
    /\ ncmds' = ncmds + 1
    /\ UNCHANGED <<world, ret, finalized, have_run, opts, files, built, log,
                   exc, snapshot, stack>>

SpecData == InitData /\ [][AddDataFile]_vars

\* how many entries of df have target t
Entries(df, t) == Cardinality({i \in 1..Len(df) : df[i][1] = t})

\* how often source f is in the file lists of df's entries for target t
Registered(df, t, f) ==
    Cardinality(UNION {{<<i, k>> : k \in {k \in 1..Len(df[i][2]) : df[i][2][k] = f}} :
                          i \in {i \in 1..Len(df) : df[i][1] = t}})

\* C19: after each add_data_file call every target has at most one entry
\* and every source is at most once in a target's file list, the call's
\* own pair exactly once; a call with a pair that is registered already
\* leaves data_files as it is.
C19_DataFilesStayDistinct ==
    [][/\ \A t \in DataTargets : Entries(data_files', t) <= 1
       /\ \A t \in DataTargets, f \in DataSources :
              Registered(data_files', t, f) <= 1
       /\ Registered(data_files', arg'[1], arg'[2]) = 1
       /\ Registered(data_files, arg'[1], arg'[2]) >= 1 =>
              data_files' = data_files]_vars

\* a pair the distribution starts with, and then a new pair twice
C19_Witness ==
    /\ ncmds = 3
    /\ arg = <<"q/l64", "build/qext/p.so">>
    /\ data_files = Append(InitDataFiles, <<"q/l64", <<"build/qext/p.so">>>>)

====
